---- MODULE Spec2Model ----
(***************************************************************************)
(* Interactive prompt selector of prompt-manager-cli (package ui) and the  *)
(* ranking engine it consumes.                                             *)
(*                                                                         *)
(* Strings are sequences of one-character strings; a prompt is identified  *)
(* by its Name (names are unique keys within one snapshot).  The cursor is *)
(* 0-based as in the Go code, TLA+ sequences are 1-based, so the           *)
(* highlighted entry is filtered[cursor + 1].                              *)
(***************************************************************************)
EXTENDS Integers, Sequences, FiniteSets, TLC

VARIABLES model, quitCmds, pc, result, call, io

vars == <<model, quitCmds, pc, result, call, io>>

----------------------------------------------------------------------------
(* Bounds and input sets                                                    *)

\* longest query the typing path may build
MaxQueryLen == 2

\* candidate snapshots handed to the selector, in the order supplied
Snapshots ==
    { << <<"k","a">>, <<"a","j">>, <<"J","a","-","k">> >>,
      << <<"a","2">> >> }

\* a decimal number of twenty digits, too large for an int
LongNumber == [i \in 1..20 |-> "9"]

\* candidate lists for the fallback selector: a prompt named by such a
\* number, and a name that is part of an earlier name
NumberedSnapshots ==
    { << <<"a","j">>, LongNumber >>,
      << <<"k","a","j">>, <<"a","j">> >> }

\* seed queries given to newSelectorModel
Seeds == { <<>>, <<" ","a">> }

\* search.Options.MaxResults values handed to the selector
MaxResultsChoices == {0, 1, 5}

\* rune payloads of tea.KeyRunes messages (single keystrokes and chunks)
RuneInputs ==
    { <<"a">>, <<"j">>, <<"k">>, <<"J">>, <<" ">>, <<"0">>, <<"2">>,
      <<"0","2">>, <<"u","p">>, <<"e","s","c">>, <<"e","n","t","e","r">> }

\* key types other than tea.KeyRunes, with the name Key.String() gives them
NamedKeys ==
    { "esc", "ctrl+c", "backspace", "delete", "ctrl+h", "enter", "up",
      "ctrl+p", "down", "ctrl+n", "ctrl+u", "tab" }

KeyMsgs ==
    { [Type |-> "KeyRunes", Runes |-> r, Name |-> ""] : r \in RuneInputs }
    \cup { [Type |-> "KeyOther", Runes |-> <<>>, Name |-> n] : n \in NamedKeys }

\* result caps handed to search.Search (the config value or --limit)
RankCaps == {0, 1, 2}

\* what isTerminal reports for the in and out handed to the selector
TerminalChoices == {TRUE, FALSE}

\* what the fallback selector's scanner gets from in: end of input, or a line
FallbackLines ==
    { <<>>, <<" ">>, <<"2">>, <<" ","2"," ">>, <<"0">>, <<"-","2">>,
      <<"j","a","-","k">>, <<"a">>, <<"a","J">>, <<"k","k">>, LongNumber }

FallbackInputs ==
    { [eof |-> TRUE, text |-> <<>>] }
    \cup { [eof |-> FALSE, text |-> t] : t \in FallbackLines }

\* tea.WindowSizeMsg payloads
WindowSizes == { [Width |-> 80, Height |-> 24], [Width |-> 40, Height |-> 12] }

----------------------------------------------------------------------------
(* Character helpers                                                        *)

\* code point of a character (byte order used by Go string comparison)
Code(c) ==
    CASE c = " " -> 32 [] c = "-" -> 45 [] c = "0" -> 48 [] c = "1" -> 49
      [] c = "2" -> 50 [] c = "3" -> 51 [] c = "4" -> 52 [] c = "5" -> 53
      [] c = "6" -> 54 [] c = "7" -> 55 [] c = "8" -> 56 [] c = "9" -> 57
      [] c = "J" -> 74 [] c = "a" -> 97 [] c = "c" -> 99 [] c = "e" -> 101
      [] c = "h" -> 104 [] c = "i" -> 105
      [] c = "j" -> 106 [] c = "k" -> 107 [] c = "l" -> 108
      [] c = "n" -> 110 [] c = "p" -> 112
      [] c = "r" -> 114 [] c = "s" -> 115 [] c = "t" -> 116
      [] c = "u" -> 117

\* unicode.ToLower on a single character
ToLower(c) == IF c = "J" THEN "j" ELSE c

\* strings.TrimSpace
RECURSIVE TrimLeft(_)
TrimLeft(s) ==
    IF s # <<>> /\ Head(s) = " " THEN TrimLeft(Tail(s)) ELSE s

RECURSIVE TrimRight(_)
TrimRight(s) ==
    IF s # <<>> /\ s[Len(s)] = " "
    THEN TrimRight(SubSeq(s, 1, Len(s) - 1))
    ELSE s

TrimSpace(s) == TrimRight(TrimLeft(s))

\* string(runes): the Go string made of the runes
RECURSIVE RunesToString(_)
RunesToString(r) ==
    IF r = <<>> THEN "" ELSE Head(r) \o RunesToString(Tail(r))

\* a < b in Go's string order (bytewise lexicographic)
RECURSIVE StrLess(_, _)
StrLess(a, b) ==
    IF b = <<>> THEN FALSE
    ELSE IF a = <<>> THEN TRUE
    ELSE IF Code(Head(a)) # Code(Head(b)) THEN Code(Head(a)) < Code(Head(b))
    ELSE StrLess(Tail(a), Tail(b))

isDigits(runes) ==
    /\ Len(runes) # 0
    /\ \A i \in 1..Len(runes) :
          Code(runes[i]) >= Code("0") /\ Code(runes[i]) <= Code("0") + 9

\* strconv.Atoi on an all-digit string (short enough not to overflow)
RECURSIVE Atoi(_)
Atoi(runes) ==
    IF runes = <<>> THEN 0
    ELSE 10 * Atoi(SubSeq(runes, 1, Len(runes) - 1))
           + (Code(runes[Len(runes)]) - Code("0"))

----------------------------------------------------------------------------
(* Ranking engine: search.Search(prompts, query, opts)                      *)

\* the set of elements of a sequence
Range(s) == { s[i] : i \in 1..Len(s) }

\* leftmost case-insensitive subsequence match of q in name, starting at
\* index from: the matched positions, or <<0>> when there is no match
RECURSIVE MatchFrom(_, _, _)
MatchFrom(name, q, from) ==
    IF q = <<>> THEN <<>>
    ELSE IF from > Len(name) THEN <<0>>
    ELSE IF ToLower(name[from]) = ToLower(Head(q))
         THEN LET rest == MatchFrom(name, Tail(q), from + 1)
              IN  IF rest = <<0>> THEN <<0>> ELSE <<from>> \o rest
         ELSE MatchFrom(name, q, from + 1)

Matches(name, q) == MatchFrom(name, q, 1) # <<0>>

IsSeparator(c) == c \in {" ", "-", "_"}

\* score of a name matched at positions pos: matched characters, +1 per
\* pair of consecutive positions, +2 for a match starting the name, +1 per
\* character following a separator, +1 per character matching in case
ScoreAt(name, q, pos) ==
    Len(pos)
    + Cardinality({ i \in 1..(Len(pos) - 1) : pos[i + 1] = pos[i] + 1 })
    + (IF Len(pos) > 0 /\ pos[1] = 1 THEN 2 ELSE 0)
    + Cardinality({ i \in 1..Len(pos) :
                      pos[i] > 1 /\ IsSeparator(name[pos[i] - 1]) })
    + Cardinality({ i \in 1..Len(pos) : name[pos[i]] = q[i] })

\* relevance score of a matching name
Score(name, q) == ScoreAt(name, q, MatchFrom(name, q, 1))

\* a ranks before b for query q: higher score first, ties by ascending name
RankBefore(a, b, q) ==
    \/ Score(a, q) > Score(b, q)
    \/ Score(a, q) = Score(b, q) /\ StrLess(a, b)

\* the names in S in ascending name order
RECURSIVE SortByName(_)
SortByName(S) ==
    IF S = {} THEN <<>>
    ELSE LET first == CHOOSE a \in S : \A b \in S \ {a} : StrLess(a, b)
         IN  <<first>> \o SortByName(S \ {first})

\* the names in S in ranking order for query q
RECURSIVE SortByRank(_, _)
SortByRank(S, q) ==
    IF S = {} THEN <<>>
    ELSE LET first == CHOOSE a \in S : \A b \in S \ {a} : RankBefore(a, b, q)
         IN  <<first>> \o SortByRank(S \ {first}, q)

\* the first n elements of s (all of s when n is not positive)
Truncate(s, n) == IF n > 0 /\ n < Len(s) THEN SubSeq(s, 1, n) ELSE s

Search(prompts, q, opts) ==
    LET sorted == IF q = <<>> THEN SortByName(Range(prompts))
                  ELSE SortByRank({ p \in Range(prompts) : Matches(p, q) }, q)
    IN  Truncate(sorted, opts.MaxResults)

----------------------------------------------------------------------------
(* selectorModel and its methods                                            *)

\* sortPrompts that returns the copy in the order supplied
sortPromptsAsSupplied(prompts) == prompts

\* sort.Slice by Name on a copy of the prompts
sortPrompts(prompts) == SortByName(Range(prompts))

\* applyQuery view that always asks the ranking for every match
filterViewUncapped(m, q) ==
    LET trimmed == TrimSpace(q)
    IN  IF trimmed = <<>> THEN sortPrompts(m.allPrompts)
        ELSE Search(m.allPrompts, trimmed, [MaxResults |-> Len(m.allPrompts)])

\* applyQuery view that puts the search results back into name order
filterViewSortsByName(m, q) ==
    LET trimmed == TrimSpace(q)
    IN  IF trimmed = <<>> THEN sortPrompts(m.allPrompts)
        ELSE sortPrompts(Search(m.allPrompts, trimmed,
                                [MaxResults |-> Len(m.allPrompts)]))

\* applyQuery view that shows every candidate whatever the query is
filterViewNoSearch(m, q) == sortPrompts(m.allPrompts)

\* applyQuery view that applies the cap to the unfiltered view as well
filterViewCapsEmptyQuery(m, q) ==
    LET trimmed == TrimSpace(q)
        maxr == m.filterOpts.MaxResults
        opts == IF maxr <= 0 \/ maxr > Len(m.allPrompts)
                THEN [MaxResults |-> Len(m.allPrompts)]
                ELSE m.filterOpts
    IN  IF trimmed = <<>>
        THEN Truncate(sortPrompts(m.allPrompts), opts.MaxResults)
        ELSE Search(m.allPrompts, trimmed, opts)

\* first half of applyQuery: the view for query q
filterView(m, q) ==
    LET trimmed == TrimSpace(q)
        maxr == m.filterOpts.MaxResults
        opts == IF maxr <= 0 \/ maxr > Len(m.allPrompts)
                THEN [MaxResults |-> Len(m.allPrompts)]
                ELSE m.filterOpts
    IN  IF trimmed = <<>> THEN sortPrompts(m.allPrompts)
        ELSE Search(m.allPrompts, trimmed, opts)

\* applyQuery that only clamps the cursor and never resets it
applyQueryNoReset(m, q) ==
    LET newFiltered == filterView(m, q)
        newCursor == IF Len(newFiltered) = 0 THEN 0
                     ELSE IF m.cursor >= Len(newFiltered)
                          THEN Len(newFiltered) - 1
                          ELSE m.cursor
    IN  [m EXCEPT !.query = q, !.filtered = newFiltered, !.cursor = newCursor]

\* applyQuery that resets the cursor after every filter step
applyQueryAlwaysReset(m, q) ==
    [m EXCEPT !.query = q, !.filtered = filterView(m, q), !.cursor = 0]

applyQuery(m, q) ==
    LET trimmed == TrimSpace(q)
        newFiltered == filterView(m, q)
        newCursor == IF Len(newFiltered) = 0 THEN 0
                     ELSE IF trimmed # <<>> THEN 0
                     ELSE IF m.cursor >= Len(newFiltered)
                          THEN Len(newFiltered) - 1
                          ELSE m.cursor
    IN  [m EXCEPT !.query = q, !.filtered = newFiltered, !.cursor = newCursor]

\* newSelectorModel that stores the seed without running applyQuery on it
newSelectorModelSeedUnfiltered(prompts, initialQuery, opts) ==
    [allPrompts |-> prompts,
     filtered   |-> sortPrompts(prompts),
     cursor     |-> 0,
     cancelled  |-> FALSE,
     width      |-> 0,
     height     |-> 0,
     ready      |-> FALSE,
     query      |-> initialQuery,
     filterOpts |-> opts,
     mode       |-> "modeFilter"]

newSelectorModel(prompts, initialQuery, opts) ==
    applyQuery([allPrompts |-> prompts,
                filtered   |-> <<>>,
                cursor     |-> 0,
                cancelled  |-> FALSE,
                width      |-> 0,
                height     |-> 0,
                ready      |-> FALSE,
                query      |-> <<>>,
                filterOpts |-> opts,
                mode       |-> "modeFilter"],
               initialQuery)

\* toggleMode that can only leave query-editing mode
toggleModeOneWay(m) == [m EXCEPT !.mode = "modeNavigate"]

toggleMode(m) ==
    IF m.mode = "modeFilter" THEN [m EXCEPT !.mode = "modeNavigate"]
    ELSE [m EXCEPT !.mode = "modeFilter"]

\* moveUp that stops at the first entry instead of wrapping
moveUpNoWrap(m) ==
    IF Len(m.filtered) = 0 \/ m.cursor = 0 THEN m
    ELSE [m EXCEPT !.cursor = m.cursor - 1]

moveUp(m) ==
    IF Len(m.filtered) = 0 THEN m
    ELSE IF m.cursor = 0 THEN [m EXCEPT !.cursor = Len(m.filtered) - 1]
    ELSE [m EXCEPT !.cursor = m.cursor - 1]

\* moveDown that steps past the last entry instead of wrapping
moveDownNoWrap(m) ==
    IF Len(m.filtered) = 0 THEN m
    ELSE [m EXCEPT !.cursor = m.cursor + 1]

moveDown(m) ==
    IF Len(m.filtered) = 0 THEN m
    ELSE [m EXCEPT !.cursor = (m.cursor + 1) % Len(m.filtered)]

\* backspace that shortens the query without re-running the filter
backspaceKeepView(m) ==
    IF m.query = <<>> THEN m
    ELSE [m EXCEPT !.query = SubSeq(m.query, 1, Len(m.query) - 1)]

\* backspace that drops the first rune instead of the last
backspaceDropsFirst(m) ==
    IF m.query = <<>> THEN m
    ELSE applyQuery(m, SubSeq(m.query, 2, Len(m.query)))

backspace(m) ==
    IF m.query = <<>> THEN m
    ELSE applyQuery(m, SubSeq(m.query, 1, Len(m.query) - 1))

\* clearQuery that empties the query without running applyQuery
clearQueryKeepView(m) == [m EXCEPT !.query = <<>>]

clearQuery(m) ==
    IF m.query = <<>> THEN m ELSE applyQuery(m, <<>>)

\* numeric jump that forgets the list is numbered from 1
numericJumpOffByOne(m, runes) ==
    LET idx == Atoi(runes)
    IN  IF idx >= 1 /\ idx <= Len(m.filtered)
        THEN [m EXCEPT !.cursor = idx] ELSE m

\* the 1-based jump taken by handleRunes for digits typed on an empty query
numericJump(m, runes) ==
    LET idx == Atoi(runes)
    IN  IF idx >= 1 /\ idx <= Len(m.filtered)
        THEN [m EXCEPT !.cursor = idx - 1] ELSE m

handleRunes(m, runes) ==
    IF Len(runes) = 0 THEN m
    ELSE IF m.mode = "modeNavigate"
    THEN IF Len(runes) = 1 /\ runes[1] \in {"j", "J"} THEN moveDown(m)
         ELSE IF Len(runes) = 1 /\ runes[1] \in {"k", "K"} THEN moveUp(m)
         ELSE m
    ELSE IF m.query = <<>> /\ isDigits(runes) THEN numericJump(m, runes)
    ELSE applyQuery(m, m.query \o runes)

\* tea.KeyMsg.String(): the rune text of a KeyRunes message, the key's name
\* otherwise
KeyString(msg) ==
    IF msg.Type = "KeyRunes" THEN RunesToString(msg.Runes) ELSE msg.Name

\* tail of Update's KeyMsg case, reached when the switch did not return
runesTail(m, msg) ==
    IF msg.Type = "KeyRunes" /\ Len(msg.Runes) > 0
    THEN handleRunes(m, msg.Runes)
    ELSE m

\* "enter" that assigns the flag from the view instead of only raising it
onEnterAssign(m) == [m EXCEPT !.cancelled = (Len(m.filtered) = 0)]

\* the model change of Update's "enter" case
onEnter(m) ==
    IF Len(m.filtered) = 0 THEN [m EXCEPT !.cancelled = TRUE] ELSE m

\* Update on a tea.KeyMsg: the new model and the command returned
UpdateKey(m, msg) ==
    LET s == KeyString(msg)
        nav == m.mode = "modeNavigate"
    IN  CASE s = "esc" -> [m |-> toggleMode(m), cmd |-> "nil"]
          [] s = "ctrl+c" ->
                [m |-> [m EXCEPT !.cancelled = TRUE], cmd |-> "Quit"]
          [] s \in {"backspace", "delete", "ctrl+h"} ->
                [m |-> IF nav THEN m ELSE backspace(m), cmd |-> "nil"]
          [] s = "enter" ->
                [m |-> onEnter(m), cmd |-> "Quit"]
          [] s \in {"up", "ctrl+p"} ->
                [m |-> runesTail(moveUp(m), msg), cmd |-> "nil"]
          [] s \in {"down", "ctrl+n"} ->
                [m |-> runesTail(moveDown(m), msg), cmd |-> "nil"]
          [] s = "ctrl+u" ->
                [m |-> IF nav THEN m ELSE runesTail(clearQuery(m), msg),
                 cmd |-> "nil"]
          [] s = "j" ->
                [m |-> IF nav THEN moveDown(m) ELSE runesTail(m, msg),
                 cmd |-> "nil"]
          [] s = "k" ->
                [m |-> IF nav THEN moveUp(m) ELSE runesTail(m, msg),
                 cmd |-> "nil"]
          [] OTHER -> [m |-> runesTail(m, msg), cmd |-> "nil"]

\* Update on a tea.WindowSizeMsg
\* resize handler that also sends the highlight back to the first entry
UpdateWindowSizeResetsCursor(m, msg) ==
    [m EXCEPT !.width = msg.Width, !.height = msg.Height, !.ready = TRUE,
              !.cursor = 0]

UpdateWindowSize(m, msg) ==
    [m EXCEPT !.width = msg.Width, !.height = msg.Height, !.ready = TRUE]

\* what runInteractiveSelector returns for the final model
selectorResult(m) ==
    IF m.cancelled \/ Len(m.filtered) = 0
    THEN [prompt |-> <<>>, err |-> "ErrInvalidSelection"]
    ELSE [prompt |-> m.filtered[m.cursor + 1], err |-> "nil"]

----------------------------------------------------------------------------
(* The interactive session: runInteractiveSelector driving the model        *)

NoResult == [prompt |-> <<>>, err |-> "none"]

\* nothing listed on out and nothing read from in yet
NoIO == [out |-> <<>>, reads |-> FALSE]

\* the arguments of one SelectPromptWithQuery call; in and out are reduced
\* to what isTerminal reports for them
SelectCall(prompts, seed, maxr, inTerm, outTerm) ==
    [prompts      |-> prompts,
     initialQuery |-> seed,
     opts         |-> [MaxResults |-> maxr],
     inTerminal   |-> inTerm,
     outTerminal  |-> outTerm]

Init ==
    /\ \E prompts \in Snapshots, seed \in Seeds, maxr \in MaxResultsChoices :
          /\ call = SelectCall(prompts, seed, maxr, TRUE, TRUE)
          /\ model = newSelectorModel(prompts, seed, [MaxResults |-> maxr])
    /\ quitCmds = {}
    /\ pc = "running"
    /\ result = NoResult
    /\ io = NoIO

\* the program delivers one key message to Update; a returned tea.Quit is a
\* command in flight, remembered by the key that produced it.  Update has no
\* guard of its own, so messages queued behind the key are still processed
\* until the quit message arrives (Finish)
Key(msg) ==
    /\ pc = "running"
    /\ LET r == UpdateKey(model, msg)
       IN  /\ Len(r.m.query) <= MaxQueryLen
           /\ model' = r.m
           /\ quitCmds' = IF r.cmd = "Quit" THEN quitCmds \cup {KeyString(msg)}
                          ELSE quitCmds
    /\ io' = [io EXCEPT !.reads = TRUE]
    /\ UNCHANGED <<pc, result, call>>

\* the program delivers a window size message to Update
Resize(msg) ==
    /\ pc = "running"
    /\ model' = UpdateWindowSize(model, msg)
    /\ UNCHANGED <<quitCmds, pc, result, call, io>>

\* the quit message reaches the event loop: the program returns the final
\* model and runInteractiveSelector computes its result from it
Finish ==
    /\ pc = "running"
    /\ quitCmds # {}
    /\ result' = selectorResult(model)
    /\ pc' = "returned"
    /\ UNCHANGED <<model, quitCmds, call, io>>

Next ==
    \/ \E msg \in KeyMsgs : Key(msg)
    \/ \E msg \in WindowSizes : Resize(msg)
    \/ Finish

Spec == Init /\ [][Next]_vars

----------------------------------------------------------------------------
(* SelectPromptWithQuery: the guard, the session and the numbered fallback  *)

\* strings.ToLower on a string
LowerStr(s) == [i \in 1..Len(s) |-> ToLower(s[i])]

\* strings.EqualFold
EqualFold(a, b) == LowerStr(a) = LowerStr(b)

\* strings.Contains
Contains(s, sub) ==
    \E i \in 0..(Len(s) - Len(sub)) : SubSeq(s, i + 1, i + Len(sub)) = sub

\* digits without their leading zeros
RECURSIVE StripZeros(_)
StripZeros(digits) ==
    IF Len(digits) > 1 /\ Head(digits) = "0" THEN StripZeros(Tail(digits))
    ELSE digits

\* the decimal digits of the largest int (64 bits)
MaxIntDigits ==
    <<"9","2","2","3","3","7","2","0","3","6","8","5","4","7","7","5","8","0","7">>

\* the number written by digits does not fit an int: above MaxInt, or for a
\* negative number below -MaxInt - 1 (strconv.Atoi reports ErrRange)
OutOfIntRange(digits, negative) ==
    LET d == StripZeros(digits)
        top == IF negative
               THEN [MaxIntDigits EXCEPT ![Len(MaxIntDigits)] = "8"]
               ELSE MaxIntDigits
    IN  \/ Len(d) > Len(top)
        \/ Len(d) = Len(top) /\ StrLess(top, d)

\* stands for any int too large for the model's arithmetic: it is only
\* ever compared with the length of a list
LargeInt == 1000000000

\* strconv.Atoi on any text: an optional sign and then digits only, and a
\* value that fits an int
ParseInt(text) ==
    LET signed == text # <<>> /\ Head(text) \in {"+", "-"}
        negative == signed /\ Head(text) = "-"
        digits == IF signed THEN Tail(text) ELSE text
        size == IF Len(StripZeros(digits)) > 9 THEN LargeInt
                ELSE Atoi(StripZeros(digits))
    IN  IF ~isDigits(digits) THEN [ok |-> FALSE, val |-> 0]
        ELSE IF OutOfIntRange(digits, negative) THEN [ok |-> FALSE, val |-> 0]
        ELSE IF negative THEN [ok |-> TRUE, val |-> 0 - size]
        ELSE [ok |-> TRUE, val |-> size]

\* the first index at which the sequence of booleans hits holds TRUE
FirstIndex(hits) ==
    CHOOSE i \in 1..Len(hits) : hits[i] /\ \A j \in 1..(i - 1) : ~hits[j]

\* dispatch that gives up when in or out is not a terminal
selectDispatchNeedsTerminal(c) ==
    IF Len(c.prompts) = 0 \/ ~(c.inTerminal /\ c.outTerminal) THEN "ErrNoPrompts"
    ELSE "interactive"

\* dispatch that tests for terminals before testing for an empty list
selectDispatchTerminalFirst(c) ==
    IF c.inTerminal /\ c.outTerminal THEN "interactive"
    ELSE IF Len(c.prompts) = 0 THEN "ErrNoPrompts"
    ELSE "fallback"

\* the entry guard and the terminal test of SelectPromptWithQuery
selectDispatch(c) ==
    IF Len(c.prompts) = 0 THEN "ErrNoPrompts"
    ELSE IF c.inTerminal /\ c.outTerminal THEN "interactive"
    ELSE "fallback"

\* the list the fallback shows: the seed's matches if there are any
fallbackDisplay(c) ==
    LET trimmed == TrimSpace(c.initialQuery)
    IN  IF trimmed # <<>> /\ Len(Search(c.prompts, trimmed, c.opts)) > 0
        THEN Search(c.prompts, trimmed, c.opts)
        ELSE c.prompts

\* selectPromptFallback that returns the first partial match it meets, before
\* looking for an exact one further down the list
selectPromptFallbackPartialFirst(prompts, input) ==
    LET text == TrimSpace(input.text)
        partial == [i \in 1..Len(prompts) |->
                       Contains(LowerStr(prompts[i]), LowerStr(text))]
    IN  IF input.eof \/ text = <<>> THEN [prompt |-> prompts[1], err |-> "nil"]
        ELSE IF ParseInt(text).ok
        THEN IF ParseInt(text).val < 1 \/ ParseInt(text).val > Len(prompts)
             THEN [prompt |-> <<>>, err |-> "ErrInvalidSelection"]
             ELSE [prompt |-> prompts[ParseInt(text).val], err |-> "nil"]
        ELSE IF \E i \in 1..Len(prompts) : partial[i]
        THEN [prompt |-> prompts[FirstIndex(partial)], err |-> "nil"]
        ELSE [prompt |-> <<>>, err |-> "ErrInvalidSelection"]

\* what selectPromptFallback returns for the line it reads
selectPromptFallback(prompts, input) ==
    LET text == TrimSpace(input.text)
        exact == [i \in 1..Len(prompts) |-> EqualFold(prompts[i], text)]
        partial == [i \in 1..Len(prompts) |->
                       Contains(LowerStr(prompts[i]), LowerStr(text))]
    IN  IF input.eof \/ text = <<>> THEN [prompt |-> prompts[1], err |-> "nil"]
        ELSE IF ParseInt(text).ok
        THEN IF ParseInt(text).val < 1 \/ ParseInt(text).val > Len(prompts)
             THEN [prompt |-> <<>>, err |-> "ErrInvalidSelection"]
             ELSE [prompt |-> prompts[ParseInt(text).val], err |-> "nil"]
        ELSE IF \E i \in 1..Len(prompts) : exact[i]
        THEN [prompt |-> prompts[FirstIndex(exact)], err |-> "nil"]
        ELSE IF \E i \in 1..Len(prompts) : partial[i]
        THEN [prompt |-> prompts[FirstIndex(partial)], err |-> "nil"]
        ELSE [prompt |-> <<>>, err |-> "ErrInvalidSelection"]

\* no selectorModel has been constructed
NoModel ==
    [allPrompts |-> <<>>,
     filtered   |-> <<>>,
     cursor     |-> 0,
     cancelled  |-> FALSE,
     width      |-> 0,
     height     |-> 0,
     ready      |-> FALSE,
     query      |-> <<>>,
     filterOpts |-> [MaxResults |-> 0],
     mode       |-> "none"]

SelectInit ==
    /\ \E prompts \in Snapshots \cup NumberedSnapshots \cup { <<>> },
          seed \in Seeds,
          maxr \in MaxResultsChoices,
          inTerm \in TerminalChoices, outTerm \in TerminalChoices :
          call = SelectCall(prompts, seed, maxr, inTerm, outTerm)
    /\ model = NoModel
    /\ quitCmds = {}
    /\ pc = "call"
    /\ result = NoResult
    /\ io = NoIO

\* the guard on an empty candidate list returns ErrNoPrompts at once
RefuseNoPrompts ==
    /\ pc = "call"
    /\ selectDispatch(call) = "ErrNoPrompts"
    /\ result' = [prompt |-> <<>>, err |-> "ErrNoPrompts"]
    /\ pc' = "returned"
    /\ UNCHANGED <<model, quitCmds, call, io>>

\* both ends are terminals: runInteractiveSelector builds the model and
\* starts the program
RunInteractive ==
    /\ pc = "call"
    /\ selectDispatch(call) = "interactive"
    /\ model' = newSelectorModel(call.prompts, call.initialQuery, call.opts)
    /\ pc' = "running"
    /\ UNCHANGED <<quitCmds, result, call, io>>

\* the program returns an error: runInteractiveSelector drops the model and
\* SelectPromptWithQuery goes on to the fallback
TUIFails ==
    /\ pc = "running"
    /\ model' = NoModel
    /\ quitCmds' = {}
    /\ pc' = "tuiFailed"
    /\ UNCHANGED <<result, call, io>>

\* selectPromptFallback: list the entries on out, scan one line from in
Fallback(input) ==
    /\ \/ pc = "call" /\ selectDispatch(call) = "fallback"
       \/ pc = "tuiFailed"
    /\ io' = [out |-> fallbackDisplay(call), reads |-> TRUE]
    /\ result' = selectPromptFallback(fallbackDisplay(call), input)
    /\ pc' = "returned"
    /\ UNCHANGED <<model, quitCmds, call>>

SelectNext ==
    \/ RefuseNoPrompts
    \/ RunInteractive
    \/ \E msg \in KeyMsgs : Key(msg)
    \/ \E msg \in WindowSizes : Resize(msg)
    \/ Finish
    \/ TUIFails
    \/ \E input \in FallbackInputs : Fallback(input)

SelectSpec == SelectInit /\ [][SelectNext]_vars

----------------------------------------------------------------------------
(* pm cat and pm mesh: resolving the given names against the library        *)

\* prompt libraries as loadPrompts returns them: names with their aliases
Libraries ==
    { << [Name |-> <<"a","j">>,   Aliases |-> << <<"k","a">> >>],
         [Name |-> <<"k","a">>,   Aliases |-> << >>],
         [Name |-> <<"J","a","-","k">>,  Aliases |-> << <<"j","_","a">> >>] >>,
      << [Name |-> <<"k","a">>,   Aliases |-> << >>],
         [Name |-> <<"a","j">>,   Aliases |-> << <<"k","a">> >>] >> }

\* arguments given on the command line after the flags
NameArgs ==
    { <<>>, <<"k","a">>, <<"j","a","-","k">>, <<"j","a">>, <<"k">>,
      <<"j"," ","a">>, <<"j","k">>, <<"k","k">> }

\* most arguments given to one command
MaxArgs == 2

ArgLists == UNION { [1..n -> NameArgs] : n \in 0..MaxArgs }

\* strings.Join(args, " ")
RECURSIVE JoinSpace(_)
JoinSpace(args) ==
    IF args = <<>> THEN <<>>
    ELSE IF Len(args) = 1 THEN Head(args)
    ELSE Head(args) \o <<" ">> \o JoinSpace(Tail(args))

\* the characters normalizeQuery's replacer turns into a space
NormalizeSeparators == { "_", "-", "/", ".", ",", "\n", "\r", "\t" }

\* strings.Join(strings.Fields(s), " ") on a string without leading space
RECURSIVE Squeeze(_)
Squeeze(s) ==
    IF s = <<>> THEN <<>>
    ELSE IF Head(s) = " " /\ (Tail(s) = <<>> \/ Head(Tail(s)) = " ")
         THEN Squeeze(Tail(s))
         ELSE <<Head(s)>> \o Squeeze(Tail(s))

normalizeQuery(value) ==
    LET trimmed == TrimSpace(value)
        clean == [i \in 1..Len(trimmed) |->
                     IF ToLower(trimmed[i]) \in NormalizeSeparators THEN " "
                     ELSE ToLower(trimmed[i])]
    IN  IF trimmed = <<>> THEN <<>> ELSE Squeeze(TrimLeft(clean))

aliasMatch(p, query) ==
    \E i \in 1..Len(p.Aliases) : EqualFold(p.Aliases[i], query)

aliasMatchNormalized(p, normalizedQuery) ==
    /\ normalizedQuery # <<>>
    /\ \E i \in 1..Len(p.Aliases) : normalizeQuery(p.Aliases[i]) = normalizedQuery

NoPrompt == [Name |-> <<>>, Aliases |-> <<>>]

resolvePromptByQuery(prompts, query) ==
    LET direct == [i \in 1..Len(prompts) |->
                      EqualFold(prompts[i].Name, query) \/ aliasMatch(prompts[i], query)]
        nq == normalizeQuery(query)
        loose == [i \in 1..Len(prompts) |->
                     \/ normalizeQuery(prompts[i].Name) = nq
                     \/ aliasMatchNormalized(prompts[i], nq)]
    IN  IF query = <<>> THEN [prompt |-> NoPrompt, err |-> "EmptyName"]
        ELSE IF \E i \in 1..Len(prompts) : direct[i]
        THEN [prompt |-> prompts[FirstIndex(direct)], err |-> "nil"]
        ELSE IF nq # <<>> /\ \E i \in 1..Len(prompts) : loose[i]
        THEN [prompt |-> prompts[FirstIndex(loose)], err |-> "nil"]
        ELSE [prompt |-> NoPrompt, err |-> "NotFound"]

\* values a settings file may give max_results and truncate_length
ConfigNumbers == { -1, 0, 7 }

\* a key of the settings file: absent, or present with a number
ConfigKeys ==
    { [set |-> FALSE, val |-> 0] }
    \cup { [set |-> TRUE, val |-> v] : v \in ConfigNumbers }

\* the settings file at the configuration path: unreadable, not valid TOML,
\* or valid with its two numeric keys
ConfigFiles ==
    { [readable |-> FALSE, valid |-> FALSE,
       maxResults |-> [set |-> FALSE, val |-> 0],
       truncateLength |-> [set |-> FALSE, val |-> 0]],
      [readable |-> TRUE, valid |-> FALSE,
       maxResults |-> [set |-> FALSE, val |-> 0],
       truncateLength |-> [set |-> FALSE, val |-> 0]] }
    \cup { [readable |-> TRUE, valid |-> TRUE,
            maxResults |-> m, truncateLength |-> t] :
            m \in ConfigKeys, t \in ConfigKeys }

DefaultMaxResults == 20
DefaultTruncateLength == 120

\* toml.Unmarshal into an int field: an absent key leaves the zero value
Unmarshal(key) == IF key.set THEN key.val ELSE 0

\* config.Load that takes every value the file gives, whatever its sign
LoadKeepsRaw(file) ==
    IF ~file.readable \/ ~file.valid
    THEN [MaxResults |-> DefaultMaxResults, TruncateLength |-> DefaultTruncateLength]
    ELSE [MaxResults     |-> IF file.maxResults.set
                             THEN Unmarshal(file.maxResults)
                             ELSE DefaultMaxResults,
          TruncateLength |-> IF file.truncateLength.set
                             THEN Unmarshal(file.truncateLength)
                             ELSE DefaultTruncateLength]

\* config.Load, for the two numeric settings the selector and search use
Load(file) ==
    IF ~file.readable \/ ~file.valid
    THEN [MaxResults |-> DefaultMaxResults, TruncateLength |-> DefaultTruncateLength]
    ELSE [MaxResults     |-> IF Unmarshal(file.maxResults) > 0
                             THEN Unmarshal(file.maxResults)
                             ELSE DefaultMaxResults,
          TruncateLength |-> IF Unmarshal(file.truncateLength) > 0
                             THEN Unmarshal(file.truncateLength)
                             ELSE DefaultTruncateLength]

\* ui.normalizeOptions
normalizeOptions(opts) ==
    IF opts.TruncateLength <= 0
    THEN [opts EXCEPT !.TruncateLength = DefaultTruncateLength]
    ELSE opts

NoSettings == [MaxResults |-> 0, TruncateLength |-> 0]

\* one invocation of pm cat or pm mesh, before the settings are loaded
CliInit ==
    /\ \E cmd \in {"cat", "mesh"}, lib \in Libraries, args \in ArgLists,
          file \in ConfigFiles :
          call = [cmd |-> cmd, prompts |-> lib, args |-> args, names |-> <<>>,
                  config |-> file, settings |-> NoSettings]
    /\ model = NoModel
    /\ quitCmds = {}
    /\ pc = "boot"
    /\ result = NoResult
    /\ io = NoIO

\* run builds the appContext from the settings file
NewAppContext ==
    /\ pc = "boot"
    /\ call' = [call EXCEPT !.settings = Load(call.config)]
    /\ pc' = "start"
    /\ UNCHANGED <<model, quitCmds, result, io>>

\* runCat and runMesh up to the loaded library: no name is an error, cat
\* joins its arguments into one name, mesh keeps them apart
CliStart ==
    /\ pc = "start"
    /\ IF call.args = <<>>
       THEN /\ result' = [prompt |-> NoPrompt, err |-> "NameRequired"]
            /\ pc' = "returned"
            /\ UNCHANGED call
       ELSE \/ /\ result' = [prompt |-> NoPrompt, err |-> "LoadError"]
               /\ pc' = "returned"
               /\ UNCHANGED call
            \/ /\ call' = [call EXCEPT !.names =
                              IF call.cmd = "cat" THEN <<JoinSpace(call.args)>>
                              ELSE call.args]
               /\ pc' = "resolving"
               /\ UNCHANGED result
    /\ UNCHANGED <<model, quitCmds, io>>

\* resolve the next name and write the prompt found; the first name that
\* does not resolve ends the command with its error
ResolveName ==
    /\ pc = "resolving"
    /\ call.names # <<>>
    /\ LET r == resolvePromptByQuery(call.prompts, Head(call.names))
       IN  /\ result' = r
           /\ IF r.err # "nil"
              THEN pc' = "returned" /\ UNCHANGED <<io, call>>
              ELSE /\ io' = [io EXCEPT !.out = Append(io.out, r.prompt.Name)]
                   /\ call' = [call EXCEPT !.names = Tail(call.names)]
                   /\ pc' = IF call.cmd = "cat" THEN "returned" ELSE "resolving"
    /\ UNCHANGED <<model, quitCmds>>

\* every name of pm mesh is written: append what is piped on in, if any
MeshEnd ==
    /\ pc = "resolving"
    /\ call.names = <<>>
    /\ \E piped \in BOOLEAN : io' = [io EXCEPT !.reads = piped]
    /\ result' = [prompt |-> NoPrompt, err |-> "nil"]
    /\ pc' = "returned"
    /\ UNCHANGED <<model, quitCmds, call>>

CliNext ==
    \/ NewAppContext
    \/ CliStart
    \/ ResolveName
    \/ MeshEnd

CliSpec == CliInit /\ [][CliNext]_vars

----------------------------------------------------------------------------
(* Rendering: selectorModel.View and the session that shows its frames      *)

\* longest list shown in a rendering session
MaxListed == 5

\* prompt lists long enough for the list window to be shorter than the view
RenderSnapshots ==
    { [i \in 1..MaxListed |-> <<"a", <<"1","2","3","4","5","6">>[i]>>],
      <<<<"a","2">>>> }

\* tea.WindowSizeMsg payloads of a rendering session
RenderSizes ==
    { [Width |-> 80, Height |-> 24], [Width |-> 80, Height |-> 14],
      [Width |-> 5, Height |-> 5], [Width |-> 0, Height |-> 0] }

\* ui.Options.TruncateLength values handed to the selector
TruncateLengths == { 0, 1 }

DefaultWidth == 80
DefaultHeight == 24
MinListed == 3
ListMargin == 10
TitleMargin == 4

\* truncate: text cut to length display cells, the last one the ellipsis
\* rune (written "..." here, one cell wide)
truncate(text, length) ==
    IF length <= 0 THEN <<>>
    ELSE IF Len(text) <= length THEN text
    ELSE IF length <= 1 THEN <<"...">>
    ELSE SubSeq(text, 1, length - 1) \o <<"...">>

\* renderPromptTitle for a prompt without tags
renderPromptTitle(p, width, truncateLength) ==
    truncate(p, IF truncateLength > 0 /\ truncateLength < width - TitleMargin
                THEN truncateLength
                ELSE width - TitleMargin)

\* visibleRange that always starts the window at the first entry
visibleRangeFromTop(total, cursor, maxItems) ==
    IF total <= maxItems THEN <<0, total>> ELSE <<0, maxItems>>

\* visibleRange: the window [start, end) of entries listed
visibleRange(total, cursor, maxItems) ==
    IF total <= maxItems THEN <<0, total>>
    ELSE LET c == IF cursor < 0 THEN 0 ELSE cursor
             centred == c - (maxItems \div 2)
             low == IF centred < 0 THEN 0 ELSE centred
             start == IF low + maxItems > total THEN total - maxItems ELSE low
         IN  <<start, start + maxItems>>

\* the height View works with, and the number of entries it lists at most
viewHeight(m) == IF m.height <= 0 THEN DefaultHeight ELSE m.height
viewWidth(m) == IF m.width <= 0 THEN DefaultWidth ELSE m.width
listMax(m) ==
    IF viewHeight(m) - ListMargin < MinListed THEN MinListed
    ELSE viewHeight(m) - ListMargin

\* the window View asks visibleRange for
viewWindow(m) == visibleRange(Len(m.filtered), m.cursor, listMax(m))

FrameLine(kind, text, index, highlighted) ==
    [kind |-> kind, text |-> text, index |-> index, highlighted |-> highlighted]

\* the lines View writes: filter line, mode hint, then the notice or the
\* listed entries (with the index read from filtered) and the preview
viewFrame(m, truncateLength) ==
    <<FrameLine("filter", m.query, -1, FALSE),
      FrameLine("hint", <<m.mode>>, -1, FALSE)>>
    \o IF Len(m.filtered) = 0
       THEN <<FrameLine("noMatches", <<>>, -1, FALSE)>>
       ELSE [k \in 1..(viewWindow(m)[2] - viewWindow(m)[1]) |->
                FrameLine("entry",
                          renderPromptTitle(m.filtered[viewWindow(m)[1] + k],
                                            viewWidth(m), truncateLength),
                          viewWindow(m)[1] + k - 1,
                          viewWindow(m)[1] + k - 1 = m.cursor)]
            \o <<FrameLine("preview", m.filtered[m.cursor + 1], m.cursor, FALSE)>>

\* View that stores the dimensions it falls back to in the model
ViewStoresDefaults(m, truncateLength) ==
    [m     |-> [m EXCEPT !.width = viewWidth(m), !.height = viewHeight(m)],
     frame |-> viewFrame(m, truncateLength)]

\* View: the model it leaves behind its pointer receiver, and the frame
View(m, truncateLength) ==
    [m |-> m, frame |-> viewFrame(m, truncateLength)]

\* a selector session over a long list; the program renders the model once
\* at start and again after every message it has handed to Update
RenderInit ==
    /\ \E prompts \in RenderSnapshots, t \in TruncateLengths :
          /\ call = [prompts      |-> prompts,
                     initialQuery |-> <<>>,
                     opts         |-> [MaxResults |-> 0],
                     uiOpts       |-> normalizeOptions([TruncateLength |-> t]),
                     inTerminal   |-> TRUE,
                     outTerminal  |-> TRUE]
          /\ model = View(newSelectorModel(prompts, <<>>, [MaxResults |-> 0]),
                          normalizeOptions([TruncateLength |-> t]).TruncateLength).m
          /\ io = [out   |-> View(newSelectorModel(prompts, <<>>, [MaxResults |-> 0]),
                                  normalizeOptions([TruncateLength |-> t]).TruncateLength).frame,
                   reads |-> FALSE]
    /\ quitCmds = {}
    /\ pc = "running"
    /\ result = NoResult

\* one key message: Update, then View of the updated model written to out
KeyRendered(msg) ==
    /\ pc = "running"
    /\ Len(UpdateKey(model, msg).m.query) <= MaxQueryLen
    /\ model' = View(UpdateKey(model, msg).m, call.uiOpts.TruncateLength).m
    /\ quitCmds' = IF UpdateKey(model, msg).cmd = "Quit"
                   THEN quitCmds \cup {KeyString(msg)}
                   ELSE quitCmds
    /\ io' = [out   |-> View(UpdateKey(model, msg).m,
                             call.uiOpts.TruncateLength).frame,
              reads |-> TRUE]
    /\ UNCHANGED <<pc, result, call>>

\* one window size message: Update, then View of the updated model
ResizeRendered(msg) ==
    /\ pc = "running"
    /\ model' = View(UpdateWindowSize(model, msg), call.uiOpts.TruncateLength).m
    /\ io' = [io EXCEPT !.out = View(UpdateWindowSize(model, msg),
                                     call.uiOpts.TruncateLength).frame]
    /\ UNCHANGED <<quitCmds, pc, result, call>>

RenderNext ==
    \/ \E msg \in KeyMsgs : KeyRendered(msg)
    \/ \E msg \in RenderSizes : ResizeRendered(msg)
    \/ Finish

RenderSpec == RenderInit /\ [][RenderNext]_vars

----------------------------------------------------------------------------
(* pm pick: by query, by positional arguments, or through the selector      *)

\* prompt libraries pm pick loads (prompts by name)
PickLibraries == Snapshots \cup { <<>> }

\* values of the --query flag
QueryFlags == { <<>>, <<"a">>, <<"k","k">> }

\* ctx.searchOpts.MaxResults, from the loaded settings
SearchCaps == { 1, DefaultMaxResults }

\* the frame of runPick: parsed flags, positional arguments, and what the
\* command has loaded and written on its out so far
PickCall(lib, query, interactive, copy, args, cap) ==
    [cmd         |-> "pick",
     fn          |-> "runPick",
     library     |-> lib,
     query       |-> query,
     interactive |-> interactive,
     copy        |-> copy,
     args        |-> args,
     searchOpts  |-> [MaxResults |-> cap],
     loaded      |-> FALSE,
     stdout      |-> <<>>]

\* runPick that lets --query win over --interactive
runPickQueryWins(c) ==
    IF c.query # <<>> THEN [next |-> "pickWithQuery", query |-> c.query]
    ELSE IF ~c.interactive /\ c.args # <<>>
    THEN [next |-> "pickWithQuery", query |-> JoinSpace(c.args)]
    ELSE [next |-> "pickInteractive", query |-> <<>>]

\* runPick after flag parsing: where it goes, and with which query
runPick(c) ==
    IF c.query # <<>> /\ c.interactive
    THEN [next |-> "QueryAndInteractive", query |-> <<>>]
    ELSE IF c.query # <<>> THEN [next |-> "pickWithQuery", query |-> c.query]
    ELSE IF ~c.interactive /\ c.args # <<>>
    THEN [next |-> "pickWithQuery", query |-> JoinSpace(c.args)]
    ELSE [next |-> "pickInteractive", query |-> <<>>]

PickInit ==
    /\ \E lib \in PickLibraries, query \in QueryFlags, interactive \in BOOLEAN,
          copy \in BOOLEAN, args \in ArgLists, cap \in SearchCaps :
          call = PickCall(lib, query, interactive, copy, args, cap)
    /\ model = NoModel
    /\ quitCmds = {}
    /\ pc = "pick"
    /\ result = NoResult
    /\ io = NoIO

\* runPick: refuse --query with --interactive, or call one of the two ways
RunPick ==
    /\ pc = "pick"
    /\ IF runPick(call).next = "QueryAndInteractive"
       THEN /\ result' = [prompt |-> <<>>, err |-> "QueryAndInteractive"]
            /\ pc' = "done"
            /\ UNCHANGED call
       ELSE /\ pc' = runPick(call).next
            /\ call' = [cmd        |-> "pick",
                        fn         |-> runPick(call).next,
                        library    |-> call.library,
                        query      |-> runPick(call).query,
                        copy       |-> call.copy,
                        searchOpts |-> call.searchOpts,
                        loaded     |-> FALSE,
                        stdout     |-> <<>>]
            /\ UNCHANGED result
    /\ UNCHANGED <<model, quitCmds, io>>

\* runPickWithQuery: load, rank, write the first result; the clipboard copy
\* that follows the write may fail
RunPickWithQuery ==
    /\ pc = "pickWithQuery"
    /\ \/ /\ result' = [prompt |-> <<>>, err |-> "LoadError"]
          /\ UNCHANGED call
       \/ /\ Len(Search(call.library, call.query, call.searchOpts)) = 0
          /\ result' = [prompt |-> <<>>, err |-> "NoPromptsFound"]
          /\ call' = [call EXCEPT !.loaded = TRUE]
       \/ /\ Len(Search(call.library, call.query, call.searchOpts)) > 0
          /\ call' = [call EXCEPT
                         !.loaded = TRUE,
                         !.stdout = <<Search(call.library, call.query,
                                             call.searchOpts)[1]>>]
          /\ \/ result' = [prompt |-> Search(call.library, call.query,
                                             call.searchOpts)[1],
                           err |-> "nil"]
             \/ /\ call.copy
                /\ result' = [prompt |-> <<>>, err |-> "ClipboardError"]
    /\ pc' = "done"
    /\ UNCHANGED <<model, quitCmds, io>>

\* runPickInteractive up to its SelectPromptWithQuery call: load, refuse an
\* empty library, hand the name-sorted prompts to the selector
RunPickInteractive ==
    /\ pc = "pickInteractive"
    /\ \/ /\ result' = [prompt |-> <<>>, err |-> "LoadError"]
          /\ pc' = "done"
          /\ UNCHANGED call
       \/ /\ Len(call.library) = 0
          /\ result' = [prompt |-> <<>>, err |-> "NoPromptsAvailable"]
          /\ pc' = "done"
          /\ call' = [call EXCEPT !.loaded = TRUE]
       \/ /\ Len(call.library) > 0
          /\ \E inTerm \in TerminalChoices, outTerm \in TerminalChoices :
                call' = [cmd          |-> "pick",
                         fn           |-> "pickInteractive",
                         copy         |-> call.copy,
                         loaded       |-> TRUE,
                         stdout       |-> <<>>,
                         prompts      |-> Search(call.library, <<>>,
                                                 [MaxResults |-> 0]),
                         initialQuery |-> <<>>,
                         opts         |-> [MaxResults |-> 0],
                         inTerminal   |-> inTerm,
                         outTerminal  |-> outTerm]
          /\ pc' = "call"
          /\ UNCHANGED result
    /\ UNCHANGED <<model, quitCmds, io>>

\* (SelectPromptWithQuery's guard on an empty list cannot fire here)
\* the selector has returned to runPickInteractive: its error is passed on,
\* its prompt is written (and copied, which may fail)
PickOutput ==
    /\ pc = "returned"
    /\ IF result.err # "nil"
       THEN UNCHANGED <<call, result>>
       ELSE /\ call' = [call EXCEPT !.stdout = <<result.prompt>>]
            /\ \/ UNCHANGED result
               \/ /\ call.copy
                  /\ result' = [prompt |-> <<>>, err |-> "ClipboardError"]
    /\ pc' = "done"
    /\ UNCHANGED <<model, quitCmds, io>>

PickNext ==
    \/ RunPick
    \/ RunPickWithQuery
    \/ RunPickInteractive
    \/ RunInteractive
    \/ \E msg \in KeyMsgs : Key(msg)
    \/ \E msg \in WindowSizes : Resize(msg)
    \/ Finish
    \/ TUIFails
    \/ \E input \in FallbackInputs : Fallback(input)
    \/ PickOutput

PickSpec == PickInit /\ [][PickNext]_vars

----------------------------------------------------------------------------
(* Properties of the selector                                               *)

\* the model Update leaves, and the command it returns, when it processes
\* key message msg in the current state
After(msg) == UpdateKey(model, msg).m
Cmd(msg) == UpdateKey(model, msg).cmd

NamedKey(n) == [Type |-> "KeyOther", Runes |-> <<>>, Name |-> n]
RuneMsgs == { msg \in KeyMsgs : msg.Type = "KeyRunes" }

\* C1: the cursor is a valid index of a non-empty filtered view and is 0
\* when the view is empty, in every state reachable by key and resize events
CursorInBounds ==
    /\ Len(model.filtered) > 0 =>
          (0 <= model.cursor /\ model.cursor < Len(model.filtered))
    /\ Len(model.filtered) = 0 => model.cursor = 0

CursorInBoundsWitness ==
    /\ Len(model.filtered) >= 2
    /\ model.cursor = Len(model.filtered) - 1
    /\ model.query # <<>>

\* the ranking result for the trimmed query, or all candidates by name when
\* the trimmed query is empty
RankedView ==
    IF TrimSpace(model.query) = <<>>
    THEN SortByName(Range(model.allPrompts))
    ELSE Search(model.allPrompts, TrimSpace(model.query), model.filterOpts)

\* C2: filtered is always exactly the ranking result for trimmed(query)
\* against allCandidates (the name-sorted candidate set when it is empty),
\* and no event changes filtered while leaving the query as it was
FilteredIsRankedView ==
    /\ [](model.filtered = RankedView)
    /\ [][model'.query = model.query => model'.filtered = model.filtered]_vars

FilteredIsRankedViewWitness ==
    /\ TrimSpace(model.query) # <<>>
    /\ Len(model.filtered) > 0
    /\ Len(model.filtered) < Len(model.allPrompts)
    /\ model.mode = "modeNavigate"

\* C3: a cancel signal sets cancelled and issues the quit in any state; once
\* set, cancelled is never cleared, and a session that returns with it set
\* returns ErrInvalidSelection and no prompt, also when a confirm was
\* processed after the cancel
CancelIsFinal ==
    /\ [](/\ After(NamedKey("ctrl+c")).cancelled
          /\ Cmd(NamedKey("ctrl+c")) = "Quit")
    /\ [][model.cancelled => model'.cancelled]_vars
    /\ []("ctrl+c" \in quitCmds => model.cancelled)
    /\ []((pc = "returned" /\ model.cancelled) =>
              result = [prompt |-> <<>>, err |-> "ErrInvalidSelection"])

CancelIsFinalWitness ==
    /\ pc = "returned"
    /\ quitCmds = {"ctrl+c", "enter"}
    /\ Len(model.filtered) > 0
    /\ model.query # <<>>

\* C4: a confirm issues the quit and changes neither query, filtered nor
\* cursor, and once it has been processed the outcome is the one held at
\* that moment (EmptySelection for an empty view, otherwise the entry under
\* the cursor): no later step of a session that is not cancelled changes it
ConfirmChoosesHighlighted ==
    /\ [](/\ Cmd(NamedKey("enter")) = "Quit"
          /\ After(NamedKey("enter")).query = model.query
          /\ After(NamedKey("enter")).filtered = model.filtered
          /\ After(NamedKey("enter")).cursor = model.cursor)
    /\ [][("enter" \in quitCmds /\ "ctrl+c" \notin quitCmds') =>
              selectorResult(model') = selectorResult(model)]_vars

\* C5: a session ended by a confirm on an empty view returns a value that
\* differs from the one a cancelled session returns
EmptySelectionDistinctFromCancelled ==
    (pc = "returned" /\ quitCmds = {"enter"} /\ Len(model.filtered) = 0) =>
        result # selectorResult([model EXCEPT !.cancelled = TRUE])

\* runes is an all-digit character input arriving on an empty query in
\* typing mode
DigitsOnEmptyQuery(runes) ==
    /\ model.mode = "modeFilter"
    /\ model.query = <<>>
    /\ isDigits(runes)

InRange(n) == n >= 1 /\ n <= Len(model.filtered)

\* C6: in typing mode with an empty query, digits whose value n is within
\* [1, len(filtered)] set the cursor to n - 1 and leave query and filtered
\* unchanged
NumericJumpMovesCursor ==
    \A msg \in RuneMsgs :
        (DigitsOnEmptyQuery(msg.Runes) /\ InRange(Atoi(msg.Runes))) =>
            /\ After(msg).cursor = Atoi(msg.Runes) - 1
            /\ After(msg).query = model.query
            /\ After(msg).filtered = model.filtered

NumericJumpMovesCursorWitness ==
    /\ model.mode = "modeFilter"
    /\ model.query = <<>>
    /\ model.cursor = 1
    /\ Len(model.filtered) = 3
    /\ ~model.ready

\* C7: in typing mode with an empty query, digits whose value is outside
\* [1, len(filtered)] are appended to the query and the filter is re-run
OutOfRangeDigitsAreTyped ==
    \A msg \in RuneMsgs :
        (DigitsOnEmptyQuery(msg.Runes) /\ ~InRange(Atoi(msg.Runes))) =>
            /\ After(msg).query = model.query \o msg.Runes
            /\ After(msg).filtered = filterView(model, model.query \o msg.Runes)

\* C8: in typing mode every character input other than digits on an empty
\* query is appended to the query and the filter is re-run; j and k do not
\* move the cursor of an unfiltered view
TypedRunesExtendQuery ==
    \A msg \in RuneMsgs :
        (model.mode = "modeFilter" /\ ~DigitsOnEmptyQuery(msg.Runes)) =>
            /\ After(msg).query = model.query \o msg.Runes
            /\ After(msg).filtered = filterView(model, model.query \o msg.Runes)
            /\ After(msg).mode = model.mode
            /\ Cmd(msg) = "nil"

\* C9: in navigating mode j or J is exactly one move-down, k or K exactly
\* one move-up, and every other character input leaves query, filtered and
\* cursor unchanged
NavigatingRunesOnlyMove ==
    \A msg \in RuneMsgs :
        model.mode = "modeNavigate" =>
            /\ After(msg).query = model.query
            /\ After(msg).filtered = model.filtered
            /\ After(msg).cursor =
                  IF msg.Runes \in {<<"j">>, <<"J">>} /\ Len(model.filtered) > 0
                  THEN (model.cursor + 1) % Len(model.filtered)
                  ELSE IF msg.Runes \in {<<"k">>, <<"K">>} /\ Len(model.filtered) > 0
                  THEN (model.cursor - 1) % Len(model.filtered)
                  ELSE model.cursor

\* C10: the move-down and move-up keys act in both modes and wrap: down sets
\* the cursor to (cursor + 1) mod len(filtered), up to (cursor - 1) mod
\* len(filtered); on an empty view they change nothing; query, filtered and
\* mode are never changed
MoveKeysWrap ==
    /\ \A n \in {"down", "ctrl+n"} :
          After(NamedKey(n)) =
              [model EXCEPT !.cursor =
                  IF Len(model.filtered) = 0 THEN model.cursor
                  ELSE (model.cursor + 1) % Len(model.filtered)]
    /\ \A n \in {"up", "ctrl+p"} :
          After(NamedKey(n)) =
              [model EXCEPT !.cursor =
                  IF Len(model.filtered) = 0 THEN model.cursor
                  ELSE (model.cursor - 1) % Len(model.filtered)]

MoveKeysWrapWitness ==
    /\ model.mode = "modeNavigate"
    /\ Len(model.filtered) = 3
    /\ model.cursor = 2
    /\ model.query = <<>>

\* the view the filter step gives for query q in the current session
ViewFor(q) ==
    IF TrimSpace(q) = <<>>
    THEN SortByName(Range(model.allPrompts))
    ELSE Search(model.allPrompts, TrimSpace(q), model.filterOpts)

\* processing msg runs the filter step (every query change is one)
FilterStep(msg) == After(msg).query # model.query

\* C11 as stated: after every filter step that leaves filtered non-empty
\* while the stored query text is non-empty, the cursor is 0
FilterStepResetsCursorStored ==
    \A msg \in KeyMsgs :
        (/\ FilterStep(msg)
         /\ After(msg).filtered # <<>>
         /\ After(msg).query # <<>>) => After(msg).cursor = 0

\* C11 amended: after every filter step (a key that changes the query, or
\* construction with a seed) that leaves filtered non-empty while the
\* trimmed query is non-empty, the cursor is 0, whatever it was before
FilterStepResetsCursor ==
    /\ \A msg \in KeyMsgs :
          (/\ FilterStep(msg)
           /\ After(msg).filtered # <<>>
           /\ TrimSpace(After(msg).query) # <<>>) => After(msg).cursor = 0
    /\ \A seed \in Seeds :
          (/\ newSelectorModel(model.allPrompts, seed, model.filterOpts).filtered # <<>>
           /\ TrimSpace(seed) # <<>>) =>
              newSelectorModel(model.allPrompts, seed, model.filterOpts).cursor = 0

FilterStepResetsCursorWitness ==
    /\ model.cursor > 0
    /\ \E msg \in KeyMsgs :
          /\ FilterStep(msg)
          /\ Len(After(msg).filtered) >= 2
          /\ TrimSpace(After(msg).query) # <<>>
          /\ Len(After(msg).query) > Len(model.query)

\* C12: a filter step that ends with an empty query does not reset the
\* cursor: it keeps its value if that is still below len(filtered), becomes
\* len(filtered) - 1 if it is not, and 0 if filtered is empty
EmptyQueryKeepsCursor ==
    \A msg \in KeyMsgs :
        (FilterStep(msg) /\ After(msg).query = <<>>) =>
            After(msg).cursor =
                IF Len(After(msg).filtered) = 0 THEN 0
                ELSE IF model.cursor < Len(After(msg).filtered)
                     THEN model.cursor
                     ELSE Len(After(msg).filtered) - 1

EmptyQueryKeepsCursorWitness ==
    /\ model.cursor > 0
    /\ model.query # <<>>
    /\ \E msg \in KeyMsgs :
          /\ After(msg).query = <<>>
          /\ After(msg).cursor = model.cursor

\* the cursor the filter step leaves for query q, from the current cursor
StepCursor(q) ==
    IF Len(ViewFor(q)) = 0 THEN 0
    ELSE IF TrimSpace(q) # <<>> THEN 0
    ELSE IF model.cursor >= Len(ViewFor(q)) THEN Len(ViewFor(q)) - 1
    ELSE model.cursor

\* the current state after a filter step for query q
Refiltered(q) ==
    [model EXCEPT !.query = q, !.filtered = ViewFor(q), !.cursor = StepCursor(q)]

DeletionKeys == { "backspace", "delete", "ctrl+h" }

\* C13: in Typing mode a deletion key removes exactly the last character of
\* the query and re-runs the filter step, and does nothing on an empty query;
\* in Navigating mode it changes no field; it never ends the session
DeletionRemovesLastRune ==
    \A n \in DeletionKeys :
        /\ Cmd(NamedKey(n)) = "nil"
        /\ After(NamedKey(n)) =
              IF model.mode = "modeNavigate" \/ model.query = <<>> THEN model
              ELSE Refiltered(SubSeq(model.query, 1, Len(model.query) - 1))

DeletionRemovesLastRuneWitness ==
    /\ model.mode = "modeFilter"
    /\ Len(model.query) = 2
    /\ model.query[1] # model.query[2]
    /\ After(NamedKey("backspace")).filtered # model.filtered

\* C14: in Typing mode the clear-query key empties the query and re-runs the
\* filter step, so filtered is the whole candidate set in name order; in
\* Navigating mode it changes no field; it never ends the session
ClearQueryShowsAll ==
    /\ Cmd(NamedKey("ctrl+u")) = "nil"
    /\ After(NamedKey("ctrl+u")) =
          IF model.mode = "modeNavigate" THEN model ELSE Refiltered(<<>>)
    /\ model.mode = "modeFilter" =>
          /\ After(NamedKey("ctrl+u")).query = <<>>
          /\ After(NamedKey("ctrl+u")).filtered = SortByName(Range(model.allPrompts))

ClearQueryShowsAllWitness ==
    /\ model.mode = "modeFilter"
    /\ TrimSpace(model.query) # <<>>
    /\ Len(model.filtered) < Len(model.allPrompts)
    /\ Len(After(NamedKey("ctrl+u")).filtered) = Len(model.allPrompts)

\* C15: the mode toggle flips the mode between Typing and Navigating, leaves
\* every other field as it was, does not end the session, and a second
\* toggle restores the original state
ToggleFlipsModeOnly ==
    /\ Cmd(NamedKey("esc")) = "nil"
    /\ After(NamedKey("esc")) =
          [model EXCEPT !.mode = IF model.mode = "modeFilter"
                                 THEN "modeNavigate" ELSE "modeFilter"]
    /\ UpdateKey(After(NamedKey("esc")), NamedKey("esc")).m = model

ToggleFlipsModeOnlyWitness ==
    /\ model.mode = "modeNavigate"
    /\ model.query # <<>>
    /\ model.cursor > 0
    /\ After(NamedKey("esc")).mode = "modeFilter"

\* C16: a resize stores the new width and height and leaves query, filtered,
\* cursor, mode and cancelled as they were; a step that changes the stored
\* size changes none of them and does not end the session
ResizeKeepsSelection ==
    /\ [](\A msg \in WindowSizes :
            /\ UpdateWindowSize(model, msg).width = msg.Width
            /\ UpdateWindowSize(model, msg).height = msg.Height
            /\ UpdateWindowSize(model, msg).query = model.query
            /\ UpdateWindowSize(model, msg).filtered = model.filtered
            /\ UpdateWindowSize(model, msg).cursor = model.cursor
            /\ UpdateWindowSize(model, msg).mode = model.mode
            /\ UpdateWindowSize(model, msg).cancelled = model.cancelled)
    /\ [][(model'.width # model.width \/ model'.height # model.height) =>
            /\ model'.query = model.query
            /\ model'.filtered = model.filtered
            /\ model'.cursor = model.cursor
            /\ model'.mode = model.mode
            /\ model'.cancelled = model.cancelled
            /\ UNCHANGED <<quitCmds, pc, result>>]_vars

ResizeKeepsSelectionWitness ==
    /\ model.ready
    /\ model.height = 12
    /\ model.cursor > 0
    /\ model.query # <<>>
    /\ model.mode = "modeNavigate"

\* the model after n deletion keys
RECURSIVE Deletions(_, _)
Deletions(m, n) ==
    IF n = 0 THEN m
    ELSE Deletions(UpdateKey(m, NamedKey("backspace")).m, n - 1)

\* the model after the key messages of the sequence msgs, in order
RECURSIVE Typed(_, _)
Typed(m, msgs) ==
    IF msgs = <<>> THEN m
    ELSE Typed(UpdateKey(m, Head(msgs)).m, Tail(msgs))

MoveKeys == { NamedKey("up"), NamedKey("down") }

\* C17: from an empty query in Typing mode, typing two chunks of characters
\* (with a cursor move in between or not) and then pressing the deletion key
\* once per typed character leaves the query empty and filtered equal to
\* the candidate set in ascending name order
TypeThenDeleteRestores ==
    (model.query = <<>> /\ model.mode = "modeFilter") =>
        \A r1 \in RuneMsgs, r2 \in RuneMsgs :
            \A moves \in { <<>> } \cup { <<mv>> : mv \in MoveKeys } :
                LET typed == Typed(model, <<r1>> \o moves \o <<r2>>)
                    back == Deletions(typed, Len(r1.Runes) + Len(r2.Runes))
                IN  /\ back.query = <<>>
                    /\ back.filtered = SortByName(Range(model.allPrompts))

\* a selector constructed for the session's candidates and options
Constructed(seed) == newSelectorModel(model.allPrompts, seed, model.filterOpts)

\* C18: constructing the selector from the candidate snapshot and a seed
\* gives query = seed, filtered = the filter step's result for the seed (the
\* whole name-sorted list for an empty seed), cursor 0, Typing mode and
\* cancelled false
ConstructionFromSeed ==
    \A seed \in Seeds :
        /\ Constructed(seed).query = seed
        /\ Constructed(seed).filtered = ViewFor(seed)
        /\ seed = <<>> =>
              Constructed(seed).filtered = SortByName(Range(model.allPrompts))
        /\ Constructed(seed).cursor = 0
        /\ Constructed(seed).mode = "modeFilter"
        /\ Constructed(seed).cancelled = FALSE
        /\ Constructed(seed).allPrompts = model.allPrompts

ConstructionFromSeedWitness ==
    /\ model = Constructed(<<" ", "a">>)
    /\ Len(model.filtered) > 0
    /\ Len(model.filtered) < Len(model.allPrompts)
    /\ pc = "running"

\* C19: with an empty candidate list SelectPromptWithQuery never builds a
\* selector, reads no input and lists nothing, and its only step returns
\* ErrNoPrompts
EmptyCandidatesRefused ==
    /\ [](call.prompts = <<>> =>
            /\ pc \in {"call", "returned"}
            /\ model = NoModel
            /\ io = NoIO
            /\ pc = "returned" => result = [prompt |-> <<>>, err |-> "ErrNoPrompts"])
    /\ [][(call.prompts = <<>> /\ pc = "call") =>
            (pc' = "returned" /\ result'.err = "ErrNoPrompts")]_vars

EmptyCandidatesRefusedWitness ==
    /\ call.prompts = <<>>
    /\ call.inTerminal /\ call.outTerminal
    /\ call.initialQuery # <<>>
    /\ pc = "returned"
    /\ result.err = "ErrNoPrompts"

\* every order in which the candidates of s can be supplied
Orderings(s) == { p \in [1..Len(s) -> Range(s)] : Range(p) = Range(s) }

\* C20: while the trimmed query is empty, filtered holds every candidate
\* exactly once, in strictly ascending case-sensitive name order, and is the
\* same list for every order in which the candidates could have been supplied
EmptyQueryViewIsSortedPermutation ==
    TrimSpace(model.query) = <<>> =>
        /\ Len(model.filtered) = Len(model.allPrompts)
        /\ Range(model.filtered) = Range(model.allPrompts)
        /\ \A i \in 1..(Len(model.filtered) - 1) :
              StrLess(model.filtered[i], model.filtered[i + 1])
        /\ \A supplied \in Orderings(model.allPrompts) :
              filterView([model EXCEPT !.allPrompts = supplied], model.query)
                  = model.filtered

EmptyQueryViewIsSortedPermutationWitness ==
    /\ model.query # <<>>
    /\ TrimSpace(model.query) = <<>>
    /\ Len(model.filtered) = 3
    /\ model.filtered # model.allPrompts
    /\ model.filterOpts.MaxResults = 1
    /\ Code(model.filtered[1][1]) < Code("a")

\* the characters of q occur in name in order, compared without case
RECURSIVE IsSubsequenceFold(_, _)
IsSubsequenceFold(q, name) ==
    IF q = <<>> THEN TRUE
    ELSE IF name = <<>> THEN FALSE
    ELSE IF ToLower(Head(q)) = ToLower(Head(name))
         THEN IsSubsequenceFold(Tail(q), Tail(name))
         ELSE IsSubsequenceFold(q, Tail(name))

\* the candidates of TestSelectorModelFiltersWhileTyping
FilterExample ==
    << <<"b","r","a","i","n","s","t","o","r","m">>,
       <<"p","r","o","d","u","c","t","-","b","r","i","e","f">>,
       <<"c","o","d","e","-","r","e","v","i","e","w">> >>

\* C21: for a non-empty trimmed query every entry of filtered, and of the
\* ranking for any result cap, has the query's characters as a
\* case-insensitive subsequence of its name; uncapped, the ranking holds
\* exactly the candidates that do; "p" over brainstorm, product-brief,
\* code-review gives exactly product-brief
OnlySubsequenceMatchesShown ==
    /\ TrimSpace(model.query) # <<>> =>
          /\ \A i \in 1..Len(model.filtered) :
                IsSubsequenceFold(TrimSpace(model.query), model.filtered[i])
          /\ \A maxr \in MaxResultsChoices :
                \A p \in Range(Search(model.allPrompts, TrimSpace(model.query),
                                      [MaxResults |-> maxr])) :
                    IsSubsequenceFold(TrimSpace(model.query), p)
          /\ Range(Search(model.allPrompts, TrimSpace(model.query),
                          [MaxResults |-> 0]))
                = { p \in Range(model.allPrompts) :
                      IsSubsequenceFold(TrimSpace(model.query), p) }
    /\ Search(FilterExample, <<"p">>, [MaxResults |-> 0]) = <<FilterExample[2]>>

OnlySubsequenceMatchesShownWitness ==
    /\ TrimSpace(model.query) # <<>>
    /\ model.filterOpts.MaxResults = 0
    /\ Len(model.filtered) = 2
    /\ Len(model.allPrompts) = 3
    /\ \E p \in Range(model.allPrompts) :
          ~IsSubsequenceFold(TrimSpace(model.query), p)

\* the candidates of TestSelectorModelInitialQuery
SeedExample == << <<"a","l","p","h","a">>, <<"b","e","t","a">>, <<"a","l","p","i","n","e">> >>

\* the sequence r is in ranking order for query q: scores never increase and
\* equal scores are in strictly ascending name order
InRankOrder(r, q) ==
    \A i \in 1..(Len(r) - 1) :
        \/ Score(r[i], q) > Score(r[i + 1], q)
        \/ Score(r[i], q) = Score(r[i + 1], q) /\ StrLess(r[i], r[i + 1])

RankedWithCap(n) ==
    Search(model.allPrompts, TrimSpace(model.query), [MaxResults |-> n])

\* C23: ranking with a cap N > 0 returns the first N entries of the uncapped
\* order (all of them when there are fewer), never more than N; with cap 0
\* it returns every matching candidate; the selector's view for a non-empty
\* query under a cap N within the candidate count obeys the same limit
CapLimitsResults ==
    /\ \A n \in RankCaps \ {0} :
          /\ Len(RankedWithCap(n)) <= n
          /\ Len(RankedWithCap(n)) =
                IF Len(RankedWithCap(0)) < n THEN Len(RankedWithCap(0)) ELSE n
          /\ RankedWithCap(n) = SubSeq(RankedWithCap(0), 1, Len(RankedWithCap(n)))
    /\ Len(RankedWithCap(0)) =
          Cardinality({ p \in Range(model.allPrompts) :
                          IsSubsequenceFold(TrimSpace(model.query), p) })
    /\ (/\ TrimSpace(model.query) # <<>>
        /\ model.filterOpts.MaxResults > 0
        /\ model.filterOpts.MaxResults <= Len(model.allPrompts)) =>
          /\ Len(model.filtered) <= model.filterOpts.MaxResults
          /\ model.filtered = RankedWithCap(model.filterOpts.MaxResults)

CapLimitsResultsWitness ==
    /\ TrimSpace(model.query) # <<>>
    /\ model.filterOpts.MaxResults = 1
    /\ Len(model.filtered) = 1
    /\ Len(RankedWithCap(0)) = 3
    /\ Len(RankedWithCap(2)) = 2

\* the name the command is about to resolve
NextName == Head(call.names)

\* some prompt of the library matches name in one of the four advertised ways
ExactMatch(name) ==
    \E i \in 1..Len(call.prompts) : EqualFold(call.prompts[i].Name, name)
AliasMatch(name) ==
    \E i \in 1..Len(call.prompts) : aliasMatch(call.prompts[i], name)
NormalizedMatch(name) ==
    /\ normalizeQuery(name) # <<>>
    /\ \E i \in 1..Len(call.prompts) :
          \/ normalizeQuery(call.prompts[i].Name) = normalizeQuery(name)
          \/ aliasMatchNormalized(call.prompts[i], normalizeQuery(name))
FuzzyMatch(name) ==
    \E i \in 1..Len(call.prompts) : IsSubsequenceFold(name, call.prompts[i].Name)

\* C24: resolving a non-empty name for pm cat or pm mesh succeeds whenever a
\* prompt matches it by exact name, alias, normalized name or fuzzy match,
\* and reports "not found" only when no prompt matches in any of these ways
ResolutionTriesFourMatches ==
    (pc = "resolving" /\ call.names # <<>> /\ NextName # <<>>) =>
        /\ (ExactMatch(NextName) \/ AliasMatch(NextName)
              \/ NormalizedMatch(NextName) \/ FuzzyMatch(NextName)) =>
              resolvePromptByQuery(call.prompts, NextName).err = "nil"
        /\ resolvePromptByQuery(call.prompts, NextName).err = "NotFound" =>
              ~(ExactMatch(NextName) \/ AliasMatch(NextName)
                  \/ NormalizedMatch(NextName) \/ FuzzyMatch(NextName))

\* SelectPromptWithQuery is about to run the numbered fallback selector
FallbackReady ==
    \/ pc = "call" /\ selectDispatch(call) = "fallback"
    \/ pc = "tuiFailed"

\* the entries the fallback lists, in the order it numbers them
Listed == fallbackDisplay(call)

\* what the fallback returns for input, and the line it scanned, trimmed
Picked(input) == selectPromptFallback(Listed, input)
Line(input) == TrimSpace(input.text)

\* text is a decimal number: digits only, after an optional sign
IsNumber(text) ==
    /\ text # <<>>
    /\ isDigits(IF Head(text) \in {"+", "-"} THEN Tail(text) ELSE text)

\* text is a number between 1 and n (n far below ten digits)
NumberWithin(text, n) ==
    /\ IsNumber(text)
    /\ Head(text) # "-"
    /\ Len(StripZeros(IF Head(text) = "+" THEN Tail(text) ELSE text)) <= 9
    /\ Atoi(IF Head(text) = "+" THEN Tail(text) ELSE text) \in 1..n

\* C25: in the numbered fallback selector an empty line or the end of input
\* returns the first listed prompt, a number k within 1..n returns the k-th
\* listed prompt, and a number outside 1..n returns ErrInvalidSelection
NumberedChoice ==
    FallbackReady =>
        \A input \in FallbackInputs :
            /\ (input.eof \/ Line(input) = <<>>) =>
                  Picked(input) = [prompt |-> Listed[1], err |-> "nil"]
            /\ (~input.eof /\ NumberWithin(Line(input), Len(Listed))) =>
                  Picked(input) = [prompt |-> Listed[Atoi(Line(input))], err |-> "nil"]
            /\ (~input.eof /\ IsNumber(Line(input))
                  /\ ~NumberWithin(Line(input), Len(Listed))) =>
                  Picked(input) = [prompt |-> <<>>, err |-> "ErrInvalidSelection"]

\* the listed positions whose name equals, or contains, text without case
ExactAt(text) ==
    { i \in 1..Len(Listed) : LowerStr(Listed[i]) = LowerStr(text) }
PartialAt(text) ==
    { i \in 1..Len(Listed) : Contains(LowerStr(Listed[i]), LowerStr(text)) }

\* the least element of a non-empty set of positions
Least(S) == CHOOSE i \in S : \A j \in S : i <= j

\* C26: in the numbered fallback selector a line that is not a number returns
\* the prompt whose name equals it case-insensitively if there is one,
\* otherwise the first listed prompt whose name contains it
\* case-insensitively, otherwise ErrInvalidSelection
NameChoice ==
    FallbackReady =>
        \A input \in FallbackInputs :
            (~input.eof /\ Line(input) # <<>> /\ ~IsNumber(Line(input))) =>
                Picked(input) =
                    IF ExactAt(Line(input)) # {}
                    THEN [prompt |-> Listed[Least(ExactAt(Line(input)))], err |-> "nil"]
                    ELSE IF PartialAt(Line(input)) # {}
                    THEN [prompt |-> Listed[Least(PartialAt(Line(input)))], err |-> "nil"]
                    ELSE [prompt |-> <<>>, err |-> "ErrInvalidSelection"]

NameChoiceWitness ==
    /\ FallbackReady
    /\ \E input \in FallbackInputs :
          /\ ~IsNumber(Line(input))
          /\ ExactAt(Line(input)) = {2}
          /\ 1 \in PartialAt(Line(input))
          /\ Picked(input).prompt = Listed[2]
          /\ Picked(input).prompt # Line(input)
    /\ \E input \in FallbackInputs :
          /\ ~IsNumber(Line(input))
          /\ ExactAt(Line(input)) = {}
          /\ Picked(input) = [prompt |-> Listed[1], err |-> "nil"]
    /\ \E input \in FallbackInputs :
          Line(input) # <<>> /\ PartialAt(Line(input)) = {}

\* C27: with candidates to show, a non-terminal in or out, or a TUI that
\* fails, sends the selection through the numbered fallback, whose result
\* is what the caller gets; a session that ends by itself returns its own
\* result, ErrInvalidSelection included, and the fallback is not run
TerminalFailureFallsBack ==
    /\ []((pc = "call" /\ call.prompts # <<>>
             /\ ~(call.inTerminal /\ call.outTerminal)) =>
            selectDispatch(call) = "fallback")
    /\ [](FallbackReady =>
            \A input \in FallbackInputs :
                Picked(input).err \in {"nil", "ErrInvalidSelection"})
    /\ []((pc = "returned" /\ model # NoModel) =>
            (io.out = <<>> /\ result = selectorResult(model)))
    /\ [][FallbackReady =>
            /\ pc' = "returned"
            /\ model' = NoModel
            /\ io'.out = Listed
            /\ \E input \in FallbackInputs : result' = Picked(input)]_vars
    /\ [][(pc = "running" /\ pc' # "running") =>
            \/ pc' = "tuiFailed" /\ result' = result /\ io'.out = <<>>
            \/ pc' = "returned" /\ result' = selectorResult(model)
                  /\ model' = model /\ io'.out = <<>>]_vars

TerminalFailureFallsBackWitness ==
    /\ pc = "returned"
    /\ call.inTerminal /\ call.outTerminal
    /\ model = NoModel
    /\ io.out = call.prompts
    /\ io.reads
    /\ result.err = "nil"
    /\ Len(io.out) = 3
    /\ result.prompt = io.out[2]

\* what the settings file gives for a key when the file is usable
Configured(key) ==
    IF call.config.readable /\ call.config.valid /\ key.set THEN key.val ELSE 0

\* C28: once the settings are loaded, maxResults and truncateLength are
\* positive: a value the file gives as a positive number is kept, and a
\* missing, zero or negative one (or an unusable file) gives 20 and 120;
\* normalizeOptions does the same for the truncate length it is handed
LoadedSettingsPositive ==
    /\ pc # "boot" =>
          /\ call.settings.MaxResults > 0
          /\ call.settings.TruncateLength > 0
          /\ call.settings.MaxResults =
                IF Configured(call.config.maxResults) > 0
                THEN Configured(call.config.maxResults) ELSE 20
          /\ call.settings.TruncateLength =
                IF Configured(call.config.truncateLength) > 0
                THEN Configured(call.config.truncateLength) ELSE 120
    /\ \A t \in ConfigNumbers \cup {call.settings.TruncateLength} :
          normalizeOptions([TruncateLength |-> t]).TruncateLength =
              IF t > 0 THEN t ELSE 120

LoadedSettingsPositiveWitness ==
    /\ pc # "boot"
    /\ call.config.readable /\ call.config.valid
    /\ call.config.maxResults = [set |-> TRUE, val |-> -1]
    /\ call.config.truncateLength = [set |-> TRUE, val |-> 7]
    /\ call.settings = [MaxResults |-> 20, TruncateLength |-> 7]

\* the explicit confirm and cancel events: the enter key and ctrl+c
EndingKeys == { NamedKey("enter"), NamedKey("ctrl+c") }

\* C29: the session ends only on an explicit confirm or cancel event: in
\* every state and either mode, no other key message (mode toggle, move,
\* character input, numeric jump, deletion, clear-query) makes Update return
\* the quit command, a resize never does, and the session has returned only
\* after such a command
SessionEndsOnlyOnConfirmOrCancel ==
    /\ \A msg \in KeyMsgs : Cmd(msg) = "Quit" => msg \in EndingKeys
    /\ pc = "returned" => quitCmds # {}

\* the cap the selector hands to the ranking: the configured one, or the
\* candidate count when that is not positive or exceeds the count
EffectiveCap ==
    IF model.filterOpts.MaxResults <= 0
       \/ model.filterOpts.MaxResults > Len(model.allPrompts)
    THEN Len(model.allPrompts)
    ELSE model.filterOpts.MaxResults

\* C30: in the selector, when the trimmed query is empty the view holds
\* every candidate whatever maxResults is; when it is not empty the view is
\* the ranking under a cap that is the candidate count whenever maxResults
\* is <= 0 or greater than the candidate count, and maxResults otherwise
EmptyQueryBypassesCap ==
    pc = "running" =>
        IF TrimSpace(model.query) = <<>>
        THEN /\ Len(model.filtered) = Len(model.allPrompts)
             /\ Range(model.filtered) = Range(model.allPrompts)
        ELSE /\ model.filtered =
                    Search(model.allPrompts, TrimSpace(model.query),
                           [MaxResults |-> EffectiveCap])
             /\ Len(model.filtered) <= EffectiveCap

\* a blank has been typed in a session capped at one result over three
\* candidates, and all three are shown
EmptyQueryBypassesCapWitness ==
    /\ pc = "running"
    /\ model.query = <<" ">>
    /\ model.filterOpts.MaxResults = 1
    /\ Len(model.allPrompts) = 3
    /\ Len(model.filtered) = 3

\* the selector state a frame was produced from, after View has returned
Rendered(m) == View(m, call.uiOpts.TruncateLength).m

\* C31: rendering is a pure projection: producing a frame changes no field
\* of the selector state (query, filtered, cursor, mode, cancelled, width,
\* height), in the current state and in the state any key or resize message
\* leaves, an empty view and unset (zero) dimensions included; the frame on
\* out is the projection of the current state
RenderingIsPure ==
    pc = "running" =>
        /\ Rendered(model) = model
        /\ \A msg \in KeyMsgs : Rendered(After(msg)) = After(msg)
        /\ \A msg \in RenderSizes :
              Rendered(UpdateWindowSize(model, msg)) = UpdateWindowSize(model, msg)
        /\ io.out = viewFrame(model, call.uiOpts.TruncateLength)

\* a frame has been produced for an empty view, with dimensions never set
RenderingIsPureWitness ==
    /\ pc = "running"
    /\ io.reads
    /\ Len(model.filtered) = 0
    /\ model.width = 0 /\ model.height = 0
    /\ io.out[3].kind = "noMatches"

Min(a, b) == IF a < b THEN a ELSE b
Max(a, b) == IF a > b THEN a ELSE b

\* the window of m is in bounds, holds the highlighted entry and has n entries
WindowHolds(m, n) ==
    /\ 0 <= viewWindow(m)[1]
    /\ viewWindow(m)[1] <= m.cursor
    /\ m.cursor < viewWindow(m)[2]
    /\ viewWindow(m)[2] <= Len(m.filtered)
    /\ viewWindow(m)[2] - viewWindow(m)[1] = n

\* the selector states View is asked to render: the current one and the one
\* any window size message leaves
Resized == {model} \cup { UpdateWindowSize(model, msg) : msg \in RenderSizes }

\* C32: for every reachable state with a non-empty view and every viewport
\* height, the list window [start, end) satisfies
\* 0 <= start <= cursor < end <= len(filtered) and
\* end - start = min(len(filtered), max(height - 10, 3))
WindowFollowsStoredHeight ==
    \A m \in Resized :
        (pc = "running" /\ Len(m.filtered) > 0) =>
            WindowHolds(m, Min(Len(m.filtered), Max(m.height - 10, 3)))

\* C32 (amended): the same, for the height View works with: the stored
\* height, or 24 while the stored height is not positive; the entries on
\* the frame are exactly the window's, read from inside filtered, and the
\* highlighted one is the entry at cursor
WindowFollowsViewHeight ==
    /\ \A m \in Resized :
          (pc = "running" /\ Len(m.filtered) > 0) =>
              WindowHolds(m, Min(Len(m.filtered),
                                 Max((IF m.height <= 0 THEN 24 ELSE m.height) - 10, 3)))
    /\ \A i \in 1..Len(io.out) :
          io.out[i].kind = "entry" =>
              /\ 0 <= io.out[i].index /\ io.out[i].index < Len(model.filtered)
              /\ io.out[i].highlighted = (io.out[i].index = model.cursor)
    /\ (pc = "running" /\ Len(model.filtered) > 0) =>
          \E i \in 1..Len(io.out) :
              io.out[i].kind = "entry" /\ io.out[i].highlighted

\* five entries under a window of three, the cursor on the last entry
WindowFollowsViewHeightWitness ==
    /\ pc = "running"
    /\ Len(model.filtered) = 5
    /\ model.height = 5
    /\ model.cursor = 4
    /\ viewWindow(model) = <<2, 5>>
    /\ io.out[5].highlighted

\* what resolving the next name of the command line gives
Resolved == resolvePromptByQuery(call.prompts, NextName)

\* the prompt returned matches the name only loosely: neither its name nor
\* one of its aliases equals it
LooselyResolved ==
    /\ Resolved.err = "nil"
    /\ ~EqualFold(Resolved.prompt.Name, NextName)
    /\ ~aliasMatch(Resolved.prompt, NextName)

\* C33: if some prompt's name equals the requested name case-insensitively,
\* resolution returns a prompt whose name equals the requested name, even
\* when an earlier prompt carries an equal alias; a prompt matching only by
\* normalized name or alias is returned only when no prompt of the whole
\* list matches by exact name or exact alias
ExactNameBeatsAlias ==
    (pc = "resolving" /\ call.names # <<>> /\ NextName # <<>>) =>
        /\ ExactMatch(NextName) =>
              /\ Resolved.err = "nil"
              /\ EqualFold(Resolved.prompt.Name, NextName)
        /\ LooselyResolved => (~ExactMatch(NextName) /\ ~AliasMatch(NextName))

\* the ranking of the loaded library for the query of runPickWithQuery
PickRanked == Search(call.library, call.query, [MaxResults |-> 0])

\* the selector has not been started and nothing was listed or read
SelectorUntouched == model = NoModel /\ quitCmds = {} /\ io = NoIO

\* C34: pm pick with a non-empty --query and --interactive returns an error
\* before any prompt is loaded, selected or written; with a non-empty
\* --query alone, or positional arguments without --interactive, it never
\* starts the selector and, the library loaded, writes the top-ranked match
\* of the query (the joined arguments), or fails with "no prompts found"
\* when the ranking is empty
PickByQueryNeverSelects ==
    /\ (pc = "pick" /\ call.query # <<>> /\ call.interactive) =>
          runPick(call).next = "QueryAndInteractive"
    /\ (pc = "done" /\ result.err = "QueryAndInteractive") =>
          /\ call.query # <<>> /\ call.interactive
          /\ ~call.loaded /\ call.stdout = <<>>
          /\ SelectorUntouched
    /\ (pc = "pick" /\ call.query # <<>> /\ ~call.interactive) =>
          runPick(call) = [next |-> "pickWithQuery", query |-> call.query]
    /\ (pc = "pick" /\ call.query = <<>> /\ ~call.interactive /\ call.args # <<>>) =>
          runPick(call) = [next |-> "pickWithQuery", query |-> JoinSpace(call.args)]
    /\ (pc \in {"pickWithQuery", "done"} /\ call.fn = "pickWithQuery") =>
          SelectorUntouched
    /\ (pc = "done" /\ call.fn = "pickWithQuery" /\ call.loaded) =>
          IF Len(PickRanked) = 0
          THEN result.err = "NoPromptsFound" /\ call.stdout = <<>>
          ELSE /\ call.stdout = <<PickRanked[1]>>
               /\ \/ result = [prompt |-> PickRanked[1], err |-> "nil"]
                  \/ call.copy /\ result.err = "ClipboardError"
    /\ (pc = "done" /\ call.fn = "pickWithQuery" /\ ~call.loaded) =>
          result.err = "LoadError" /\ call.stdout = <<>>

\* the conflict of flags was refused with nothing loaded
PickByQueryNeverSelectsWitness ==
    /\ pc = "done"
    /\ result.err = "QueryAndInteractive"
    /\ call.query = <<"a">> /\ call.interactive
    /\ call.library # <<>>
    /\ ~call.loaded

====
